---- MODULE Spec2Model ----
(***************************************************************************)
(* A model of obiDictyMutants.py: the DictyMutant record parser, the       *)
(* six-source download and tag merge (DictyMutants.download_mutants), the  *)
(* store accessors and the shared-state accessor (get_instance).           *)
(*                                                                         *)
(* Text is modelled as a sequence of tokens: the two separators the code   *)
(* splits on are tokens of their own (TAB, SEP), every other token stands  *)
(* for a run of ordinary characters.  A string is therefore a sequence of  *)
(* tokens and the empty string is << >>.  A file is a sequence of lines.   *)
(*                                                                         *)
(* A DictyMutant object hashes and compares by identity.  Its identity is  *)
(* the field obj = <<born, line>>: which construction made it (the merge,  *)
(* the unpickling for the shared store, the unpickling for an instance     *)
(* constructed directly, the caller itself) and from which line.  A        *)
(* Python 2 dict with such keys is modelled as the sequence of its keys in *)
(* iteration order; building or unpickling one picks that order            *)
(* nondeterministically.                                                   *)
(*                                                                         *)
(* DictyMutants is constructed with local_database_path = None only.       *)
(***************************************************************************)
EXTENDS Integers, Sequences, FiniteSets, TLC

VARIABLES
    disk,          \* the files of local_database_path: path -> NoFile or <<content>>
    dirExists,     \* whether the directory local_database_path exists
    pklfile,       \* the persisted snapshot mutants.pkl: NoFile or <<[version, data]>>
    pc,            \* position inside pickle_data / download_mutants / update_file
    entry,         \* the method the caller has called and that has not ended yet
    src,           \* which of the six sources download_mutants is working on
    stream,        \* update_file's local stream: None or <<content served>>
    copied,        \* how many chunks copyfileobj has written to the temp file
    lines,         \* download_mutants' locals all_mutants .. other_mutants (<< >> while unbound)
    final,         \* download_mutants' final_mutants, also once it is returned to the caller
    pickled,       \* the bytes the last pickle_data returned to its caller
    _shared_dict,  \* DictyMutants._shared_dict: None or <<the shared __dict__>>
    dicty,         \* the __dict__ of the instance a caller last constructed directly
    ret,           \* what the last module-level accessor returned
    constructed,   \* how many times get_instance has constructed the shared state
    observed,      \* the record sets seen through the instances get_instance returned
    loadedFrom,    \* the snapshot the shared state was unpickled from
    staleReuse,    \* get_instance has reused the shared state with another snapshot on disk
    calls,         \* how many calls of pickle_data, download_mutants or update_file were made
    disk0,         \* disk when the last such call was made
    pkl0,          \* pklfile when the last such call was made
    served,        \* per source, what urlopen answered during that call
    fetched,       \* the sources whose update_file has returned during that call
    parsed,        \* how many DictyMutant(...) constructions that call has made
    fetchFailed    \* an update_file of that call raised

vars == <<disk, dirExists, pklfile, pc, entry, src, stream, copied, lines, final, pickled,
          _shared_dict, dicty, ret, constructed, observed, loadedFrom, staleReuse,
          calls, disk0, pkl0, served, fetched, parsed, fetchFailed>>

---------------------------------------------------------------------------
(* Bounds and input pools *)

MaxLines == 2
MaxCalls == 2

VERSION == 1

TAB == "\t"
SEP == " | "

(* An optional value is a sequence of length 0 or 1 *)
None == << >>
NoFile == << >>
Some(x) == <<x>>

DEFAULT_DATABASE_PATH == "DictyMutants"

Sources == <<"all-mutants.txt", "null-mutants.txt", "overexpression-mutants.txt",
             "multiple-mutants.txt", "developmental-mutants.txt", "other-mutants.txt">>

HDR == <<"id", TAB, "descriptor", TAB, "genes", TAB, "phenotypes">>

A1 == <<"m1", TAB, "d1", TAB, "g1", TAB, "p1">>
A2 == <<"m2", TAB, "d2", TAB, "g1", SEP, "g2", SEP, "g1", TAB, "p1", SEP, "p2", TAB, "x">>
A3 == <<"m1", TAB, "d3", TAB, "g2", TAB>>
A4 == <<"m3", TAB, "d4">>

AllPool == {A1, A2, A3, A4}

K1 == <<"m1", TAB, "c1", TAB, "g9", TAB, "p9">>
K2 == <<"m2", TAB, "c2", TAB, "g9", TAB, "p9">>
K9 == <<"m9", TAB, "c9", TAB, "g9", TAB, "p9">>
KBad == <<"m2", TAB, "c2", TAB, "g9">>

(* the line lists a category source may hold: other-mutants ranges over
   four of them, null-mutants over three, the multiple and developmental
   sources over two each, and the overexpression source holds one *)
CatLists(i) == IF i = 6 THEN {<< >>, <<K1>>, <<K9, K2>>, <<K1, KBad>>}
               ELSE IF i = 2 THEN {<< >>, <<K1>>, <<K1, KBad>>}
               ELSE IF i = 3 THEN {<<K1>>}
               ELSE IF i = 4 THEN {<< >>, <<K2>>}
               ELSE {<< >>, <<K1>>}

(* what the server answers for source i during a refresh: a mutant for
   all-mutants, a line for null-mutants, the header alone for the next
   three, nothing at all for other-mutants *)
Remote(i) == IF i = 1 THEN {<<HDR, A1>>}
             ELSE IF i = 2 THEN {<<HDR, K1>>}
             ELSE IF i = 6 THEN {<< >>}
             ELSE {<<HDR>>}

(* what an earlier refresh left in local_database_path *)
OldFile(i) == IF i = 1 THEN <<HDR, A3>> ELSE <<HDR, K2>>

(* the text order of the tokens that occur in gene and phenotype names *)
TokenOrder == <<"g1", "g2", "g9", "p1", "p2", "p9">>

SeqsUpTo(S, n) == UNION {[1..j -> S] : j \in 0..n}

Range(s) == {s[i] : i \in DOMAIN s}

---------------------------------------------------------------------------
(* str.split(d): the pieces of s between the occurrences of d *)

RECURSIVE Split(_, _)
Split(s, d) ==
    IF \A i \in DOMAIN s : s[i] # d
    THEN <<s>>
    ELSE LET i == CHOOSE j \in DOMAIN s : s[j] = d /\ \A h \in 1..(j-1) : s[h] # d
         IN  <<SubSeq(s, 1, i-1)>> \o Split(SubSeq(s, i+1, Len(s)), d)

(* DictyMutant.__init__ raises IndexError on mutant[1], mutant[2] or mutant[3] *)
Malformed(mutant_entry) == Len(Split(mutant_entry, TAB)) < 4

(* DictyMutant.__init__; obj is the identity of the new object *)
DictyMutant(mutant_entry, obj) ==
    LET mutant == Split(mutant_entry, TAB)
    IN  [obj        |-> obj,
         name       |-> mutant[1],
         descriptor |-> mutant[2],
         genes      |-> Split(mutant[3], SEP),
         phenotypes |-> Split(mutant[4], SEP),
         null       |-> FALSE,
         overexp    |-> FALSE,
         multiple   |-> FALSE,
         develop    |-> FALSE,
         other      |-> FALSE]

(* set([DictyMutant(line).name for line in category_lines]) *)
NameSet(category_lines) ==
    {DictyMutant(category_lines[i], <<"merge", 0>>).name : i \in DOMAIN category_lines}

(* Tag with the last flag read from the developmental set *)
Tag_otherFromDevelop(mutant, ls) ==
    [mutant EXCEPT
        !.null     = IF mutant.name \in NameSet(ls[2]) THEN TRUE ELSE @,
        !.overexp  = IF mutant.name \in NameSet(ls[3]) THEN TRUE ELSE @,
        !.multiple = IF mutant.name \in NameSet(ls[4]) THEN TRUE ELSE @,
        !.develop  = IF mutant.name \in NameSet(ls[5]) THEN TRUE ELSE @,
        !.other    = IF mutant.name \in NameSet(ls[5]) THEN TRUE ELSE @]

(* the body of the loop "for mutant in _mutants" *)
Tag(mutant, ls) ==
    [mutant EXCEPT
        !.null     = IF mutant.name \in NameSet(ls[2]) THEN TRUE ELSE @,
        !.overexp  = IF mutant.name \in NameSet(ls[3]) THEN TRUE ELSE @,
        !.multiple = IF mutant.name \in NameSet(ls[4]) THEN TRUE ELSE @,
        !.develop  = IF mutant.name \in NameSet(ls[5]) THEN TRUE ELSE @,
        !.other    = IF mutant.name \in NameSet(ls[6]) THEN TRUE ELSE @]

(* Tagged with the master list built from all_mutants and other_mutants *)
Tagged_withOthers(ls) ==
    [i \in DOMAIN (ls[1] \o ls[6]) |->
        Tag(DictyMutant((ls[1] \o ls[6])[i], <<"merge", i>>), ls)]

(* the list _mutants after the tagging loop, in the order of all_mutants *)
Tagged(ls) == [i \in DOMAIN ls[1] |-> Tag(DictyMutant(ls[1][i], <<"merge", i>>), ls)]

(* some DictyMutant(...) of the merge raises *)
MergeRaises(ls) == \E n \in 1..6 : \E i \in DOMAIN ls[n] : Malformed(ls[n][i])

Perms(n) == {p \in [1..n -> 1..n] : \A i, j \in 1..n : p[i] = p[j] => i = j}

(* seq without the objects that a later object of the same name follows *)
RECURSIVE OnePerName(_)
OnePerName(seq) ==
    IF seq = << >> THEN << >>
    ELSE LET rest == OnePerName(Tail(seq))
         IN  IF \E i \in DOMAIN rest : rest[i].name = Head(seq).name
             THEN rest ELSE <<Head(seq)>> \o rest

(* DictOf as {x.name: x for x in seq} would build it: one entry for each name *)
DictOf_byName(seq) ==
    {[i \in DOMAIN OnePerName(seq) |-> OnePerName(seq)[p[i]]] :
        p \in Perms(Len(OnePerName(seq)))}

(* {x: x for x in seq}: every object is a key of its own; the iteration
   order of the dict follows the objects' hashes, i.e. their addresses *)
DictOf(seq) == {[i \in DOMAIN seq |-> seq[p[i]]] : p \in Perms(Len(seq))}

(* the DictyMutant(...) calls download_mutants makes, in the order it makes
   them: all_mutants first, then the five category lists *)
ParseOrder(ls) == ls[1] \o ls[2] \o ls[3] \o ls[4] \o ls[5] \o ls[6]

(* how many of them have been made when the merge ends: all of them, or
   those up to and including the first one that raises *)
ParseCount(ls) ==
    LET made == ParseOrder(ls)
        bad   == {i \in DOMAIN made : Malformed(made[i])}
    IN  IF bad = {} THEN Len(made)
        ELSE CHOOSE i \in bad : \A j \in bad : i <= j

(* pickle.load makes new objects, born in this unpickling, and a dict of
   them in an order of its own *)
Unpickle(data, born) ==
    DictOf([i \in DOMAIN data |-> [data[i] EXCEPT !.obj = <<born, data[i].obj[2]>>]])

(* load_mutants: drop the header line, return the other lines *)
load_mutants(content) == IF content = << >> THEN << >> ELSE Tail(content)

(* temp_file as the download's own target *)
temp_file_inPlace(name) == <<name, "">>

(* update_file's two paths *)
filename(name) == <<name, "">>
temp_file(name) == <<name, "_temp">>

Paths == {filename(Sources[i]) : i \in 1..6} \cup {temp_file(Sources[i]) : i \in 1..6}

---------------------------------------------------------------------------
(* The accessors of a store, on the dict m (its keys in iteration order) *)

(* mutants as the keys of a store keyed by name would be: one object for each name *)
mutants_byName(m) == OnePerName(m)

(* DictyMutants.mutants: self._mutants.keys() *)
mutants(m) == m

(* what a lookup self._mutants[mutant] of an object that is no key ends in *)
KeyError == "KeyError"

(* mutant is a key of the dict m: the very object, not one that looks like it *)
HasKey(m, mutant) == \E i \in DOMAIN m : m[i].obj = mutant.obj

(* self._mutants[mutant]: the value stored under the key, which is the key *)
Lookup(m, mutant) == m[CHOOSE i \in DOMAIN m : m[i].obj = mutant.obj]

(* DictyMutants.mutant_genes / mutant_phenotypes *)
mutant_genes(m, mutant) ==
    IF HasKey(m, mutant) THEN Lookup(m, mutant).genes ELSE KeyError
mutant_phenotypes(m, mutant) ==
    IF HasKey(m, mutant) THEN Lookup(m, mutant).phenotypes ELSE KeyError

(* reduce(list.__add__, lists, []) *)
RECURSIVE Concat(_)
Concat(lists) == IF lists = << >> THEN << >> ELSE Head(lists) \o Concat(Tail(lists))

Rank(token) == CHOOSE i \in DOMAIN TokenOrder : TokenOrder[i] = token

(* a < b on two strings *)
RECURSIVE StrLess(_, _)
StrLess(a, b) ==
    IF b = << >> THEN FALSE
    ELSE IF a = << >> THEN TRUE
    ELSE IF Head(a) = Head(b) THEN StrLess(Tail(a), Tail(b))
    ELSE Rank(Head(a)) < Rank(Head(b))

(* sorted(S) of a set of strings *)
RECURSIVE Sorted(_)
Sorted(S) ==
    IF S = {} THEN << >>
    ELSE LET least == CHOOSE x \in S : \A y \in S \ {x} : StrLess(x, y)
         IN  <<least>> \o Sorted(S \ {least})

(* DictyMutants.genes / phenotypes *)
genes(m) ==
    Sorted(Range(Concat([i \in DOMAIN mutants(m) |-> mutant_genes(m, mutants(m)[i])])))
phenotypes(m) ==
    Sorted(Range(Concat([i \in DOMAIN mutants(m) |-> mutant_phenotypes(m, mutants(m)[i])])))

(* DefaultAdd as dgm[gene] = set([mutant]) would do it *)
DefaultAdd_overwrite(d, key, mutant) ==
    [x \in (DOMAIN d) \cup {key} |-> IF x = key THEN {mutant} ELSE d[x]]

(* dgm[gene].add(mutant) on a defaultdict(set) *)
DefaultAdd(d, key, mutant) ==
    [x \in (DOMAIN d) \cup {key} |->
        (IF x \in DOMAIN d THEN d[x] ELSE {}) \cup (IF x = key THEN {mutant} ELSE {})]

(* the inner loop: for gene in genes: dgm[gene].add(mutant) *)
RECURSIVE AddKeys(_, _, _)
AddKeys(d, keys, mutant) ==
    IF keys = << >> THEN d
    ELSE AddKeys(DefaultAdd(d, Head(keys), mutant), Tail(keys), mutant)

EmptyDict == [x \in {} |-> {}]

(* DictyMutants.gene_mutants: the outer loop over the pairs
   (mutant, self.mutant_genes(mutant)) for mutant in self.mutants() *)
RECURSIVE gene_mutants_from(_, _, _)
gene_mutants_from(d, m, ms) ==
    IF ms = << >> THEN d
    ELSE gene_mutants_from(AddKeys(d, mutant_genes(m, Head(ms)), Head(ms)), m, Tail(ms))

gene_mutants(m) == gene_mutants_from(EmptyDict, m, mutants(m))

(* DictyMutants.phenotype_mutants *)
RECURSIVE phenotype_mutants_from(_, _, _)
phenotype_mutants_from(d, m, ms) ==
    IF ms = << >> THEN d
    ELSE phenotype_mutants_from(AddKeys(d, mutant_phenotypes(m, Head(ms)), Head(ms)),
                                m, Tail(ms))

phenotype_mutants(m) == phenotype_mutants_from(EmptyDict, m, mutants(m))

---------------------------------------------------------------------------
(* The shared state, get_instance and direct construction *)

NoLines == [i \in 1..6 |-> << >>]

(* the program has one thread: a function is called only while no call of
   pickle_data is under way *)
AtRest == pc \in {"idle", "failed", "returned", "stored"}

HasStore == _shared_dict # None
Store == IF HasStore THEN _shared_dict[1]._mutants ELSE << >>

refreshVars == <<pc, entry, src, stream, copied, lines, final, pickled, disk, disk0, pkl0,
                 served, fetched, parsed, fetchFailed, calls>>
storeVars == <<_shared_dict, dicty, ret, constructed, observed, loadedFrom, staleReuse,
               dirExists>>

(* DictyMutants.__init__ with a snapshot at hand: the __dict__ values it may
   leave in the new instance, whose records are born in this unpickling *)
DictyMutants__init__(born) ==
    {[local_database_path |-> DEFAULT_DATABASE_PATH, _mutants |-> d] :
        d \in Unpickle(pklfile[1].data, born)}

(* DictyMutants.__init__ without a snapshot: the path resolver, which is not
   part of this module, has no local file to hand over and the constructor
   raises, after it has made sure that the directory exists.  This is the
   end of DictyMutants() and of every module-level function called while
   there is no shared state. *)
InitRaises ==
    /\ AtRest
    /\ pklfile = NoFile
    /\ ~dirExists
    /\ dirExists' = TRUE
    /\ UNCHANGED <<_shared_dict, dicty, ret, constructed, observed, loadedFrom, staleReuse>>
    /\ UNCHANGED refreshVars
    /\ UNCHANGED pklfile

(* get_instance without the hasattr test: every access constructs *)
get_instance_always ==
    /\ pklfile # NoFile
    /\ _shared_dict' \in {Some(d) : d \in DictyMutants__init__("shared")}
    /\ constructed' = constructed + 1
    /\ loadedFrom' = pklfile
    /\ dirExists' = TRUE
    /\ observed' = observed \cup {_shared_dict'[1]._mutants}
    /\ staleReuse' = staleReuse

(* DictyMutants.get_instance, and what the instance it returns shows *)
get_instance ==
    /\ IF _shared_dict = None
       THEN /\ pklfile # NoFile
            /\ _shared_dict' \in {Some(d) : d \in DictyMutants__init__("shared")}
            /\ constructed' = constructed + 1
            /\ loadedFrom' = pklfile
            /\ dirExists' = TRUE
       ELSE UNCHANGED <<_shared_dict, constructed, loadedFrom, dirExists>>
    /\ observed' = observed \cup {_shared_dict'[1]._mutants}
    /\ staleReuse' = (staleReuse \/ (_shared_dict # None /\ pklfile # loadedFrom))

(* a caller constructs an instance of its own: DictyMutants() *)
NewDictyMutants ==
    /\ AtRest
    /\ pklfile # NoFile
    /\ dicty' \in {Some(d) : d \in DictyMutants__init__("direct")}
    /\ dirExists' = TRUE
    /\ UNCHANGED <<_shared_dict, ret, constructed, observed, loadedFrom, staleReuse>>
    /\ UNCHANGED refreshVars
    /\ UNCHANGED pklfile

---------------------------------------------------------------------------
(* pickle_data -> download_mutants -> update_file, step by step *)

(* an exception leaves download_mutants and pickle_data: their locals are gone *)
Raise ==
    /\ pc' = "failed"
    /\ entry' = "none"
    /\ stream' = None
    /\ lines' = NoLines
    /\ final' = None
    /\ UNCHANGED <<src, copied, pickled>>

(* the sources a caller asks update_file for on its own *)
UpdateNames == {1, 6}

(* the caller holds an instance: one it constructed, or one get_instance gave it *)
HasInstance == dicty # None \/ HasStore

(* the caller calls the method name: no call is under way, and what an
   earlier call returned or raised is behind *)
EnterCall(name) ==
    /\ AtRest
    /\ calls < MaxCalls
    /\ calls' = calls + 1
    /\ entry' = name
    /\ pc' = "urlopen"
    /\ copied' = 0
    /\ final' = None
    /\ pickled' = None
    /\ disk0' = disk
    /\ pkl0' = pklfile
    /\ served' = [i \in 1..6 |-> None]
    /\ fetched' = {}
    /\ parsed' = 0
    /\ fetchFailed' = FALSE
    /\ UNCHANGED <<stream, lines, disk, pklfile>>

(* DictyMutants.get_instance() called for the instance alone *)
GetInstance ==
    /\ AtRest
    /\ get_instance
    /\ UNCHANGED <<dicty, ret, pklfile>>
    /\ UNCHANGED refreshVars

(* the module-level download_mutants(): get_instance().pickle_data() *)
DownloadMutants ==
    /\ get_instance
    /\ EnterCall("pickle_data")
    /\ src' = 1
    /\ UNCHANGED <<dicty, ret>>

(* pickle_data() on an instance the caller holds *)
CallPickleData ==
    /\ HasInstance
    /\ EnterCall("pickle_data")
    /\ src' = 1
    /\ UNCHANGED storeVars

(* the method download_mutants() on an instance the caller holds *)
CallDownloadMutants ==
    /\ HasInstance
    /\ EnterCall("download_mutants")
    /\ src' = 1
    /\ UNCHANGED storeVars

(* update_file(name) on an instance the caller holds *)
CallUpdateFile ==
    /\ HasInstance
    /\ EnterCall("update_file")
    /\ src' \in UpdateNames
    /\ UNCHANGED storeVars

(* update_file: urllib2.urlopen(url + name) answers *)
UrlOpenOk ==
    /\ pc = "urlopen"
    /\ \E content \in Remote(src) :
          /\ stream' = Some(content)
          /\ served' = [served EXCEPT ![src] = Some(content)]
    /\ pc' = "open"
    /\ UNCHANGED <<src, copied, lines, final, pickled, disk, disk0, pkl0, fetched,
                   parsed, fetchFailed, calls, entry, pklfile>>
    /\ UNCHANGED storeVars

(* UrlOpenFail with the exception caught around update_file: the download
   goes on with whatever file is there *)
UrlOpenFail_caught ==
    /\ pc = "urlopen"
    /\ fetchFailed' = TRUE
    /\ pc' = "load"
    /\ UNCHANGED <<src, stream, copied, lines, final, pickled, disk, disk0, pkl0,
                   served, fetched, parsed, calls, entry, pklfile>>
    /\ UNCHANGED <<_shared_dict, dicty, ret, constructed, observed, loadedFrom,
                   staleReuse, dirExists>>

(* update_file: urllib2.urlopen raises; nothing in download_mutants catches it *)
UrlOpenFail ==
    /\ pc = "urlopen"
    /\ Raise
    /\ fetchFailed' = TRUE
    /\ UNCHANGED <<disk, disk0, pkl0, served, fetched, parsed, calls, pklfile>>
    /\ UNCHANGED storeVars

(* update_file: open(temp_file, "wb") creates or truncates the temporary file *)
OpenTemp ==
    /\ pc = "open"
    /\ disk' = [disk EXCEPT ![temp_file(Sources[src])] = Some(<< >>)]
    /\ copied' = 0
    /\ pc' = "copy"
    /\ UNCHANGED <<src, stream, lines, final, pickled, disk0, pkl0, served, fetched,
                   parsed, fetchFailed, calls, entry, pklfile>>
    /\ UNCHANGED storeVars

(* update_file: shutil.copyfileobj moves one more chunk from the stream *)
CopyChunk ==
    /\ pc = "copy"
    /\ copied < Len(stream[1])
    /\ LET t == temp_file(Sources[src])
       IN  disk' = [disk EXCEPT ![t] = Some(Append(disk[t][1], stream[1][copied + 1]))]
    /\ copied' = copied + 1
    /\ UNCHANGED <<pc, src, stream, lines, final, pickled, disk0, pkl0, served, fetched,
                   parsed, fetchFailed, calls, entry, pklfile>>
    /\ UNCHANGED storeVars

(* CopyFail with the exception caught around update_file *)
CopyFail_caught ==
    /\ pc = "copy"
    /\ fetchFailed' = TRUE
    /\ stream' = None
    /\ pc' = "load"
    /\ UNCHANGED <<src, copied, lines, final, pickled, disk, disk0, pkl0,
                   served, fetched, parsed, calls, entry, pklfile>>
    /\ UNCHANGED <<_shared_dict, dicty, ret, constructed, observed, loadedFrom,
                   staleReuse, dirExists>>

(* update_file: a read of the stream raises inside copyfileobj, be it the
   read of the next chunk or the read that would have found the end; the
   with statement closes the temporary file and the exception propagates *)
CopyFail ==
    /\ pc = "copy"
    /\ Raise
    /\ fetchFailed' = TRUE
    /\ UNCHANGED <<disk, disk0, pkl0, served, fetched, parsed, calls, pklfile>>
    /\ UNCHANGED storeVars

(* os.rename(temp_file, filename) *)
Renamed(d, from, to) ==
    IF from = to THEN d ELSE [d EXCEPT ![to] = d[from], ![from] = NoFile]

(* update_file: the copy is complete, os.rename, return filename: to
   download_mutants, or to the caller who asked for this file alone *)
Rename ==
    /\ pc = "copy"
    /\ copied = Len(stream[1])
    /\ disk' = Renamed(disk, temp_file(Sources[src]), filename(Sources[src]))
    /\ fetched' = fetched \cup {src}
    /\ stream' = None
    /\ IF entry = "update_file"
       THEN pc' = "idle" /\ entry' = "none"
       ELSE pc' = "load" /\ entry' = entry
    /\ UNCHANGED <<src, copied, lines, final, pickled, disk0, pkl0, served, parsed,
                   fetchFailed, calls, pklfile>>
    /\ UNCHANGED storeVars

(* download_mutants: x_mutants = self.load_mutants(<the file update_file named>) *)
LoadMutants ==
    /\ pc = "load"
    /\ IF disk[filename(Sources[src])] = NoFile
       THEN Raise
       ELSE /\ lines' = [lines EXCEPT ![src] = load_mutants(disk[filename(Sources[src])][1])]
            /\ IF src < 6
               THEN pc' = "urlopen" /\ src' = src + 1
               ELSE pc' = "parse" /\ src' = src
            /\ UNCHANGED <<stream, copied, final, pickled, entry>>
    /\ UNCHANGED <<disk, disk0, pkl0, served, fetched, parsed, fetchFailed, calls,
                   pklfile>>
    /\ UNCHANGED storeVars

(* download_mutants, from "_mutants = [DictyMutant(mutant) ...]" to its
   return: to pickle_data, or to the caller who called the method itself *)
MergeTags ==
    /\ pc = "parse"
    /\ parsed' = parsed + ParseCount(lines)
    /\ IF MergeRaises(lines)
       THEN Raise
       ELSE /\ final' \in {Some(d) : d \in DictOf(Tagged(lines))}
            /\ IF entry = "download_mutants"
               THEN pc' = "idle" /\ entry' = "none" /\ lines' = NoLines
               ELSE pc' = "pickle" /\ entry' = entry /\ lines' = lines
            /\ UNCHANGED <<src, stream, copied, pickled>>
    /\ UNCHANGED <<disk, disk0, pkl0, served, fetched, fetchFailed, calls, pklfile>>
    /\ UNCHANGED storeVars

(* pickle_data: return pickle.dumps(<the merged dict>, -1) *)
PickleData ==
    /\ pc = "pickle"
    /\ pickled' = final
    /\ final' = None
    /\ lines' = NoLines
    /\ pc' = "returned"
    /\ entry' = "none"
    /\ UNCHANGED <<src, stream, copied, disk, disk0, pkl0, served, fetched, parsed,
                   fetchFailed, calls, pklfile>>
    /\ UNCHANGED storeVars

(* the caller of the refresh stores the bytes it got as the snapshot *)
Persist ==
    /\ pc = "returned"
    /\ pklfile' = Some([version |-> VERSION, data |-> pickled[1]])
    /\ pickled' = None
    /\ pc' = "stored"
    /\ UNCHANGED <<src, stream, copied, lines, final, disk, disk0, pkl0, served,
                   fetched, parsed, fetchFailed, calls, entry>>
    /\ UNCHANGED storeVars

---------------------------------------------------------------------------
(* The module-level accessors *)

(* the objects a caller may pass for a mutant: the first of the list an
   earlier mutants() gave it, the first record of the instance it
   constructed itself, a DictyMutant it made from a line *)
CallerObjects ==
    {DictyMutant(A1, <<"caller", 1>>)}
        \cup (IF Store # << >> THEN {Store[1]} ELSE {})
        \cup (IF dicty # None /\ dicty[1]._mutants # << >>
              THEN {dicty[1]._mutants[1]} ELSE {})

(* what an accessor hands back, or the exception it ends in *)
Returned(name, value) == [op |-> name, val |-> value]

(* the module-level mutants() *)
Mutants ==
    /\ AtRest
    /\ get_instance
    /\ ret' = Returned("mutants", mutants(_shared_dict'[1]._mutants))
    /\ UNCHANGED <<dicty, pklfile>>
    /\ UNCHANGED refreshVars

(* the module-level genes() *)
Genes ==
    /\ AtRest
    /\ get_instance
    /\ ret' = Returned("genes", genes(_shared_dict'[1]._mutants))
    /\ UNCHANGED <<dicty, pklfile>>
    /\ UNCHANGED refreshVars

(* the module-level phenotypes() *)
Phenotypes ==
    /\ AtRest
    /\ get_instance
    /\ ret' = Returned("phenotypes", phenotypes(_shared_dict'[1]._mutants))
    /\ UNCHANGED <<dicty, pklfile>>
    /\ UNCHANGED refreshVars

(* the module-level mutant_genes(mutant) *)
MutantGenes ==
    /\ AtRest
    /\ get_instance
    /\ \E mutant \in CallerObjects :
          ret' = Returned("mutant_genes", mutant_genes(_shared_dict'[1]._mutants, mutant))
    /\ UNCHANGED <<dicty, pklfile>>
    /\ UNCHANGED refreshVars

(* the module-level mutant_phenotypes(mutant) *)
MutantPhenotypes ==
    /\ AtRest
    /\ get_instance
    /\ \E mutant \in CallerObjects :
          ret' = Returned("mutant_phenotypes",
                          mutant_phenotypes(_shared_dict'[1]._mutants, mutant))
    /\ UNCHANGED <<dicty, pklfile>>
    /\ UNCHANGED refreshVars

(* the module-level gene_mutants() *)
GeneMutants ==
    /\ AtRest
    /\ get_instance
    /\ ret' = Returned("gene_mutants", gene_mutants(_shared_dict'[1]._mutants))
    /\ UNCHANGED <<dicty, pklfile>>
    /\ UNCHANGED refreshVars

(* the module-level phenotype_mutants() *)
PhenotypeMutants ==
    /\ AtRest
    /\ get_instance
    /\ ret' = Returned("phenotype_mutants", phenotype_mutants(_shared_dict'[1]._mutants))
    /\ UNCHANGED <<dicty, pklfile>>
    /\ UNCHANGED refreshVars

(* snapshots another release or another refresh may have written *)
Snapshots ==
    {[version |-> v, data |-> Tagged([NoLines EXCEPT ![1] = a, ![2] = <<K1>>])] :
        v \in {VERSION, VERSION + 1},
        a \in {<<A1>>, <<A2, A1>>, <<A3>>}}

(* the file mutants.pkl is replaced from outside the process *)
SnapshotReplaced ==
    /\ pklfile' \in {Some(s) : s \in Snapshots}
    /\ pklfile' # pklfile
    /\ UNCHANGED refreshVars
    /\ UNCHANGED storeVars

---------------------------------------------------------------------------
(* Specifications *)

NoRet == [op |-> "none", val |-> << >>]

AllAbsent == [p \in Paths |-> NoFile]
OldDisk == [p \in Paths |->
               IF \E i \in 1..6 : p = filename(Sources[i])
               THEN Some(OldFile(CHOOSE i \in 1..6 : p = filename(Sources[i])))
               ELSE NoFile]
(* an earlier download of the first source broke off and left its temporary file *)
OldDiskStaleTemp == [OldDisk EXCEPT ![temp_file(Sources[1])] = Some(<<HDR>>)]

OldSnapshot == [version |-> VERSION,
                data |-> Tagged([i \in 1..6 |-> load_mutants(OldFile(i))])]

InitStore ==
    /\ _shared_dict = None
    /\ ret = NoRet
    /\ constructed = 0
    /\ observed = {}
    /\ loadedFrom = None
    /\ staleReuse = FALSE

InitIdle ==
    /\ pc = "idle"
    /\ entry = "none"
    /\ src = 1
    /\ stream = None
    /\ copied = 0
    /\ lines = NoLines
    /\ final = None
    /\ pickled = None
    /\ served = [i \in 1..6 |-> None]
    /\ fetched = {}
    /\ parsed = 0
    /\ fetchFailed = FALSE
    /\ calls = 0

(* the program at its start: with or without earlier downloads, with or
   without a snapshot *)
Init ==
    /\ disk \in {AllAbsent, OldDisk, OldDiskStaleTemp}
    /\ dirExists \in (IF disk = AllAbsent THEN BOOLEAN ELSE {TRUE})
    /\ pklfile \in {NoFile, Some(OldSnapshot)}
    /\ disk0 = disk
    /\ pkl0 = pklfile
    /\ dicty = None
    /\ InitIdle
    /\ InitStore

Next ==
    \/ InitRaises
    \/ NewDictyMutants
    \/ GetInstance
    \/ DownloadMutants
    \/ CallPickleData
    \/ CallDownloadMutants
    \/ CallUpdateFile
    \/ UrlOpenOk
    \/ UrlOpenFail
    \/ OpenTemp
    \/ CopyChunk
    \/ CopyFail
    \/ Rename
    \/ LoadMutants
    \/ MergeTags
    \/ PickleData
    \/ Persist
    \/ Mutants
    \/ Genes
    \/ Phenotypes
    \/ MutantGenes
    \/ MutantPhenotypes
    \/ GeneMutants
    \/ PhenotypeMutants

Spec == Init /\ [][Next]_vars

(* pickle_data(), called on an instance the caller constructed from the
   snapshot of an earlier refresh, right after the six loads of its
   download_mutants, for every content of the six sources within the pools *)
InitMerge ==
    /\ lines \in {<<a, c2, c3, c4, c5, c6>> :
                     a \in SeqsUpTo(AllPool, MaxLines),
                     c2 \in CatLists(2), c3 \in CatLists(3), c4 \in CatLists(4),
                     c5 \in CatLists(5), c6 \in CatLists(6)}
    /\ disk = [p \in Paths |->
                  IF \E i \in 1..6 : p = filename(Sources[i])
                  THEN Some(<<HDR>> \o lines[CHOOSE i \in 1..6 : p = filename(Sources[i])])
                  ELSE NoFile]
    /\ dirExists = TRUE
    /\ served = [i \in 1..6 |-> Some(<<HDR>> \o lines[i])]
    /\ pklfile = Some(OldSnapshot)
    /\ dicty \in {Some(d) : d \in DictyMutants__init__("direct")}
    /\ disk0 = AllAbsent
    /\ pkl0 = pklfile
    /\ pc = "parse"
    /\ entry = "pickle_data"
    /\ src = 6
    /\ stream = None
    /\ copied = Len(served[6][1])
    /\ final = None
    /\ pickled = None
    /\ fetched = 1..6
    /\ parsed = 0
    /\ fetchFailed = FALSE
    /\ calls = 1
    /\ InitStore

(* the rest of that call, the storing of what it returned, and the accessors *)
NextMerge ==
    \/ MergeTags
    \/ PickleData
    \/ Persist
    \/ GetInstance
    \/ Mutants
    \/ Genes
    \/ Phenotypes
    \/ MutantGenes
    \/ MutantPhenotypes
    \/ GeneMutants
    \/ PhenotypeMutants

SpecMerge == InitMerge /\ [][NextMerge]_vars

(* a process that only reads: some snapshot, or none, is on disk *)
InitInstance ==
    /\ disk \in {AllAbsent, OldDisk}
    /\ dirExists = (disk # AllAbsent)
    /\ pklfile \in {NoFile} \cup {Some(s) : s \in Snapshots}
    /\ disk0 = disk
    /\ pkl0 = pklfile
    /\ dicty = None
    /\ InitIdle
    /\ InitStore

NextInstance ==
    \/ InitRaises
    \/ NewDictyMutants
    \/ GetInstance
    \/ Mutants
    \/ Genes
    \/ Phenotypes
    \/ MutantGenes
    \/ MutantPhenotypes
    \/ GeneMutants
    \/ PhenotypeMutants
    \/ SnapshotReplaced

SpecInstance == InitInstance /\ [][NextInstance]_vars

---------------------------------------------------------------------------
(* What the sources of the current refresh hold *)

(* the id of a line: its first tab-separated field *)
LineId(line) == Split(line, TAB)[1]

(* the lines of source i after its header, as downloaded *)
SourceLines(i) ==
    IF disk[filename(Sources[i])] = NoFile THEN << >>
    ELSE load_mutants(disk[filename(Sources[i])][1])

SourceIds(i) == {LineId(SourceLines(i)[n]) : n \in DOMAIN SourceLines(i)}

(* the dict download_mutants has built, while it or its pickled form is at hand *)
Merged == IF final # None THEN final[1] ELSE IF pickled # None THEN pickled[1] ELSE << >>
HasMerged == final # None \/ pickled # None

(* the shared store was loaded from the snapshot that the refresh of the
   sources now on disk has stored *)
StoreIsCurrent == HasStore /\ pc = "stored" /\ loadedFrom = pklfile

(* every dict of mutants built from the sources now on disk: the merge's,
   the snapshot's, the store's *)
Dicts ==
    (IF HasMerged THEN {Merged} ELSE {})
        \cup (IF pc = "stored" THEN {pklfile[1].data} ELSE {})
        \cup (IF StoreIsCurrent THEN {Store} ELSE {})

---------------------------------------------------------------------------
(* C2: after a merge, each of the five category flags of each record of the
   result is true exactly when the record's id is the id of some line of
   that category's source: never true for an id the source lacks, and
   decided for each category by that category's source alone. *)
C2_FlagIffIdInCategorySource ==
    HasMerged =>
        LET ids == [i \in 2..6 |-> SourceIds(i)]
        IN  \A n \in DOMAIN Merged :
                /\ Merged[n].null     <=> Merged[n].name \in ids[2]
                /\ Merged[n].overexp  <=> Merged[n].name \in ids[3]
                /\ Merged[n].multiple <=> Merged[n].name \in ids[4]
                /\ Merged[n].develop  <=> Merged[n].name \in ids[5]
                /\ Merged[n].other    <=> Merged[n].name \in ids[6]

(* a merge has produced a record with some flags set and others not, next to
   a record of another id with just the other flags set *)
C2_Witness ==
    /\ HasMerged
    /\ \E n, h \in DOMAIN Merged :
          /\ Merged[n].null /\ Merged[n].overexp /\ Merged[n].develop
          /\ ~Merged[n].multiple /\ ~Merged[n].other
          /\ Merged[h].name # Merged[n].name
          /\ ~Merged[h].null /\ ~Merged[h].overexp /\ ~Merged[h].develop
          /\ Merged[h].multiple /\ Merged[h].other

(* C3: an id found in a category source but in no line of all-mutants is in
   no record of the store built from these sources and in no entry of its
   gene or phenotype index; the ids of the store are the ids of
   all-mutants; and the merge fails only when some line has fewer than four
   fields, never because of such an id. *)
OrphanIds == UNION {SourceIds(i) : i \in 2..6} \ SourceIds(1)

C3_OrphanIdsDropped ==
    /\ StoreIsCurrent =>
          LET allIds == SourceIds(1)
              orphans == OrphanIds
          IN  /\ {Store[n].name : n \in DOMAIN Store} = allIds
              /\ \A n \in DOMAIN Store : Store[n].name \notin orphans
              /\ ret.op \in {"gene_mutants", "phenotype_mutants"} =>
                    \A key \in DOMAIN ret.val : \A m \in ret.val[key] :
                        m.name \in allIds /\ m.name \notin orphans
    /\ pc = "failed" =>
          \E i \in 1..6 : \E n \in DOMAIN SourceLines(i) :
              Len(Split(SourceLines(i)[n], TAB)) < 4

(* other-mutants names an id that all-mutants lacks, the store is built from
   the merge of these sources and the gene index has been asked for *)
C3_Witness ==
    /\ StoreIsCurrent
    /\ Store # << >>
    /\ <<"m9">> \in SourceIds(6) \ SourceIds(1)
    /\ ret.op = "gene_mutants"

(* C4 as claimed: in every dict built by a merge, each id of the all-mutants
   source has exactly one record. *)
C4_ExactlyOneRecordPerId ==
    \A d \in Dicts :
        \A id \in SourceIds(1) : Cardinality({n \in DOMAIN d : d[n].name = id}) = 1

(* C4, amended: in every dict built by a merge, each id has as many records
   as the all-mutants source has lines with that id, one record for each
   line; so exactly one where the id is on one line only. *)
C4_OneRecordPerLine ==
    LET all == SourceLines(1)
        lineIds == [n \in DOMAIN all |-> LineId(all[n])]
    IN  \A d \in Dicts :
            /\ Len(d) = Len(all)
            /\ \A id \in Range(lineIds) :
                  Cardinality({n \in DOMAIN d : d[n].name = id})
                      = Cardinality({n \in DOMAIN all : lineIds[n] = id})
            /\ \A n \in DOMAIN d : d[n].name \in Range(lineIds)

(* the store holds two records of one id, made from two different lines of
   the all-mutants source *)
C4_Witness ==
    /\ StoreIsCurrent
    /\ Len(Store) = 2
    /\ Store[1].name = Store[2].name
    /\ Store[1].descriptor # Store[2].descriptor

(* C5: the gene index holds mutant m under gene g exactly when g is one of
   m's genes, for every mutant of the store and every gene; the phenotype
   index likewise; neither holds anything that is not a mutant of the store. *)
C5_IndexIffMember ==
    /\ (HasStore /\ ret.op = "gene_mutants") =>
          /\ \A n \in DOMAIN Store :
                \A g \in (DOMAIN ret.val) \cup Range(Store[n].genes) \cup Range(Store[n].phenotypes) :
                    (g \in DOMAIN ret.val /\ Store[n] \in ret.val[g]) <=> g \in Range(Store[n].genes)
          /\ \A g \in DOMAIN ret.val : ret.val[g] \subseteq Range(Store)
    /\ (HasStore /\ ret.op = "phenotype_mutants") =>
          /\ \A n \in DOMAIN Store :
                \A g \in (DOMAIN ret.val) \cup Range(Store[n].genes) \cup Range(Store[n].phenotypes) :
                    (g \in DOMAIN ret.val /\ Store[n] \in ret.val[g]) <=> g \in Range(Store[n].phenotypes)
          /\ \A g \in DOMAIN ret.val : ret.val[g] \subseteq Range(Store)

(* the gene index of a store in which two mutants share a gene, one of them
   has several genes, and some gene belongs to one of them only *)
C5_Witness ==
    /\ HasStore
    /\ ret.op = "gene_mutants"
    /\ \E g \in DOMAIN ret.val : Cardinality(ret.val[g]) >= 2
    /\ \E n \in DOMAIN Store : Cardinality(Range(Store[n].genes)) >= 2
    /\ \E g \in DOMAIN ret.val : \E n \in DOMAIN Store : Store[n] \notin ret.val[g]

(* C6 as claimed: mutants() lists the mutants in the order of their lines in
   the all-mutants source. *)
C6_SourceOrder ==
    (StoreIsCurrent /\ ret.op = "mutants") =>
        /\ Len(ret.val) = Len(SourceLines(1))
        /\ \A n \in DOMAIN ret.val : ret.val[n].obj[2] = n

(* C6, amended: mutants() lists every mutant of the store exactly once, one
   for each line of the all-mutants source, in the iteration order of the
   store's dict, which need not be the order of the lines; the accessor
   itself neither sorts nor reorders. *)
C6_EachLineOnceInDictOrder ==
    (StoreIsCurrent /\ ret.op = "mutants") =>
        LET all == SourceLines(1)
        IN  /\ Len(ret.val) = Len(all)
            /\ \A i \in DOMAIN all :
                  /\ Cardinality({n \in DOMAIN ret.val : ret.val[n].obj[2] = i}) = 1
                  /\ \A n \in DOMAIN ret.val :
                        ret.val[n].obj[2] = i => ret.val[n].name = LineId(all[i])
            /\ ret.val = Store

(* mutants() has answered with the second line's mutant ahead of the first's *)
C6_Witness ==
    /\ StoreIsCurrent
    /\ ret.op = "mutants"
    /\ Len(ret.val) >= 2
    /\ ret.val[1].obj[2] = 2
    /\ ret.val[2].obj[2] = 1

---------------------------------------------------------------------------
(* C1: a refresh one of whose six fetches fails is aborted as a whole: it
   ends in the failure, no merged dict and no pickled snapshot exist, and
   the persisted snapshot is the one that was there when the refresh began,
   still there to be loaded. *)
C1_FailedFetchAbortsRefresh ==
    fetchFailed =>
        /\ pc = "failed"
        /\ final = None
        /\ pickled = None
        /\ pklfile = pkl0
        /\ pklfile # NoFile
        /\ fetched # 1..6

(* the third fetch of a refresh has failed after two sources were replaced;
   the snapshot that was there is still there and mutants() has answered
   from it *)
C1_Witness ==
    /\ fetchFailed
    /\ src = 3
    /\ fetched = {1, 2}
    /\ pklfile = Some(OldSnapshot)
    /\ loadedFrom = pklfile
    /\ ret.op = "mutants"
    /\ Len(ret.val) = Len(OldSnapshot.data)

(* C9: under its final name a source file always has either the content it
   had when the refresh began or the whole content the server answered with,
   whatever point a download has reached and also when it broke off. *)
C9_FinalNameOldOrComplete ==
    \A i \in 1..6 :
        \/ disk[filename(Sources[i])] = disk0[filename(Sources[i])]
        \/ /\ served[i] # None
           /\ disk[filename(Sources[i])] = served[i]
           /\ i \in fetched

(* a download has broken off part-way: the temporary file holds a proper
   part of the answer and the final name still holds the previous file *)
C9_Witness ==
    /\ pc = "failed"
    /\ fetchFailed
    /\ \E i \in 1..6 :
          /\ served[i] # None
          /\ disk[temp_file(Sources[i])] # NoFile
          /\ Len(disk[temp_file(Sources[i])][1]) >= 1
          /\ Len(disk[temp_file(Sources[i])][1]) < Len(served[i][1])
          /\ disk0[filename(Sources[i])] # NoFile
          /\ disk[filename(Sources[i])] = disk0[filename(Sources[i])]

(* C10: no line is parsed into a record before all six fetches have
   completed, the fetches are made one after the other in the order all,
   null, overexpression, multiple, developmental, other, and a refresh in
   which a fetch fails parses nothing. *)
C10_FetchesBeforeParsing ==
    /\ parsed > 0 => fetched = 1..6
    /\ fetchFailed => parsed = 0
    /\ entry \in {"pickle_data", "download_mutants"} =>
          /\ fetched = 1..Cardinality(fetched)
          /\ \A i \in 1..6 :
                served[i] # None =>
                    (i <= Cardinality(fetched) + 1 /\ \A j \in 1..i : served[j] # None)
    /\ \A i \in 1..6 : lines[i] # << >> => i \in fetched

(* a refresh has fetched all six sources and then parsed their lines *)
C10_Witness ==
    /\ fetched = 1..6
    /\ parsed >= 2
    /\ pc = "pickle"

---------------------------------------------------------------------------
(* C7: get_instance constructs the shared state at most once, on the first
   access that finds a snapshot; every access through it reuses that state,
   so all the instances it returns show the same record set, whatever
   happens to the snapshot file afterwards and whatever instances are
   constructed directly. *)
C7_ConstructedOnce ==
    /\ constructed <= 1
    /\ Cardinality(observed) <= 1
    /\ HasStore <=> constructed = 1
    /\ ret.op # "none" => HasStore
    /\ HasStore => /\ observed = {Store}
                   /\ loadedFrom # None
                   /\ Store \in Unpickle(loadedFrom[1].data, "shared")

(* an access has reused the shared state although the snapshot file was no
   longer the one the state was loaded from, and an instance constructed
   directly has read the newer snapshot *)
C7_Witness ==
    /\ constructed = 1
    /\ staleReuse
    /\ ret.op = "mutants"
    /\ Store # << >>
    /\ pklfile[1].data # loadedFrom[1].data
    /\ dicty # None
    /\ Len(dicty[1]._mutants) # Len(Store)

(* C8: the loader never takes the contents of a snapshot of another schema
   version than VERSION as the store. *)
C8_UnrecognizedVersionNotLoaded ==
    HasStore => loadedFrom[1].version = VERSION

====
